---- MODULE Spec2Model ----
(***************************************************************************)
(* Block decoders of src/cpp/blockdecoder.cc: the bit flipping family      *)
(* (bf_decode), the majority logic family (OneStepMLG::_decode,            *)
(* iterative_mlg_decode) and the min sum family (min_sum_decode), one      *)
(* decode call at a time, stepped at the places where the code checks the  *)
(* syndrome and where it updates its decision.                             *)
(*                                                                         *)
(* Numbers of type double are integers counting units of 1/Scale; the      *)
(* inputs and alphas are chosen so that every product and quotient the     *)
(* code forms is exact in these units (as it is in binary floating point   *)
(* for these dyadic values).  DoubleMax, Inf and NaN are the three special *)
(* magnitudes the code can produce from numeric_limits<double>::max().     *)
(***************************************************************************)
EXTENDS Integers, Sequences, FiniteSets, TLC

(* ------------------------------ bounds -------------------------------- *)

\* largest code length n; the number of rows k ranges over n - 1 .. n + 1
MaxN == 3
\* largest iteration budget max_iter
MaxIter == 2
\* magnitude of the integers an out-of-range read of s may yield
OobMag == 2

(* ------------------------------ numbers ------------------------------- *)

\* units per 1.0 of a double
Scale == 4
\* std::numeric_limits<double>::max()
DoubleMax == 1000000
Inf == 2 * DoubleMax
NaN == 3 * DoubleMax
\* EPSILON_FLIP is 1 / EpsilonFlipDen
EpsilonFlipDen == 1000
\* int x = 3, the register width of the soft MLG variants
RegBits == 3
\* std::numeric_limits<int>::max()
IntMax == 2147483647

Abs(x) == IF x < 0 THEN -x ELSE x

FNeg(x) == IF x = NaN THEN NaN ELSE -x
FAbs(x) == IF x = NaN THEN NaN ELSE Abs(x)
FLt(a, b) == a # NaN /\ b # NaN /\ a < b
FEq(a, b) == a # NaN /\ b # NaN /\ a = b
\* a + b in double: Inf absorbs, DoubleMax absorbs every finite value of the
\* model, DoubleMax + DoubleMax overflows, Inf - Inf is NaN
FAdd(a, b) ==
    IF a = NaN \/ b = NaN THEN NaN
    ELSE IF Abs(a) = Inf \/ Abs(b) = Inf
         THEN IF Abs(a) = Inf /\ Abs(b) = Inf
              THEN IF a = b THEN a ELSE NaN
              ELSE IF Abs(a) = Inf THEN a ELSE b
    ELSE IF Abs(a) = DoubleMax /\ Abs(b) = DoubleMax
         THEN IF a = b THEN (IF a > 0 THEN Inf ELSE -Inf) ELSE 0
    ELSE IF Abs(a) = DoubleMax THEN a
    ELSE IF Abs(b) = DoubleMax THEN b
    ELSE a + b
FSub(a, b) == FAdd(a, FNeg(b))
\* std::min(a, b) is b < a ? b : a, std::max(a, b) is a < b ? b : a
FMin(a, b) == IF FLt(b, a) THEN b ELSE a
FMax(a, b) == IF FLt(a, b) THEN b ELSE a
\* sg * x for sg in {-1, 1}
FSign(sg, x) == IF x = NaN THEN NaN ELSE sg * x
\* alpha * x for a finite x
FMulAlpha(a, x) == (a * x) \div Scale
\* (1.0 / alpha) * x, for alpha <= 1
FDivAlpha(a, x) ==
    IF x = NaN THEN NaN
    ELSE IF Abs(x) = Inf THEN x
    ELSE IF Abs(x) = DoubleMax
         THEN IF a < Scale THEN (IF x > 0 THEN Inf ELSE -Inf) ELSE x
    ELSE (x * Scale) \div a
\* std::round of num / den (den > 0): to nearest, halves away from zero
Round(num, den) ==
    IF num >= 0 THEN (2 * num + den) \div (2 * den)
    ELSE -((2 * (-num) + den) \div (2 * den))

(* --------------------------- control matrix --------------------------- *)

\* the columns (rows) of a 0/1 vector's ones, ascending
RECURSIVE OnesFrom(_, _, _)
OnesFrom(bit, lo, hi) ==
    IF lo > hi THEN << >>
    ELSE (IF bit[lo] = 1 THEN << lo >> ELSE << >>) \o OnesFrom(bit, lo + 1, hi)

\* row i of the matrix the polynomial bit string h spans cyclically
RowBits(h, n, i) == [j \in 0 .. n - 1 |-> h[(j - i) % n]]

\* the matrix of the k bit rows rows[0] .. rows[k - 1], with both adjacency
\* lists
FromRows(n, k, rows) ==
    [n |-> n, k |-> k,
     K |-> [i \in 0 .. k - 1 |-> OnesFrom(rows[i], 0, n - 1)],
     N |-> [j \in 0 .. n - 1 |->
              OnesFrom([i \in 0 .. k - 1 |-> rows[i][j]], 0, k - 1)]]

\* a matrix given by a polynomial: k cyclic shifts of h
CtrlMat(n, k, h) == FromRows(n, k, [i \in 0 .. k - 1 |-> RowBits(h, n, i)])

\* a matrix given row by row: the n cyclic shifts of h and one more row that
\* checks column 0 alone
UnitRow(n) == [j \in 0 .. n - 1 |-> IF j = 0 THEN 1 ELSE 0]
Extended(n, h) ==
    FromRows(n, n + 1,
             [i \in 0 .. n |-> IF i < n THEN RowBits(h, n, i) ELSE UnitRow(n)])

\* a square matrix given row by row whose row weight and column weight
\* differ: row 0 checks every column, row i > 0 checks column i alone
Irregular(n) ==
    FromRows(n, n,
             [i \in 0 .. n - 1 |->
                [j \in 0 .. n - 1 |-> IF i = 0 \/ i = j THEN 1 ELSE 0]])

Polys(n) == {h \in [0 .. n - 1 -> {0, 1}] : \E j \in 0 .. n - 1 : h[j] = 1}

\* the matrices of the model: n columns, k rows, k below, at and above n
CtrlMats ==
    UNION {UNION {{CtrlMat(n, k, h) : h \in Polys(n)} : k \in n - 1 .. n + 1}
               \cup {Extended(n, h) : h \in Polys(n)} \cup {Irregular(n)} :
           n \in 2 .. MaxN}

(* ------------------------------ decoders ------------------------------ *)

BFDecoders == {"BF", "WBF", "MWBF", "IMWBF"}
IterMLGDecoders == {"HardMLG", "SoftMLG", "AdaptiveSoftMLG"}
MinSumDecoders == {"MinSum", "NormalizedMinSum", "OffsetMinSum"}
IterativeDecoders == BFDecoders \cup IterMLGDecoders \cup MinSumDecoders
Decoders == IterativeDecoders \cup {"OneStepMLG"}

Fn(d) ==
    IF d \in BFDecoders THEN "bf_decode"
    ELSE IF d \in IterMLGDecoders THEN "iterative_mlg_decode"
    ELSE IF d \in MinSumDecoders THEN "min_sum_decode"
    ELSE "OneStepMLG"

\* the call each _decode method makes: the function and its mode flags
Wrapper(d) ==
    [fn |-> Fn(d),
     weighted |-> d \in {"WBF", "MWBF", "IMWBF"},
     modified |-> d \in {"MWBF", "IMWBF"},
     improved |-> d = "IMWBF",
     soft |-> d \in {"SoftMLG", "AdaptiveSoftMLG"},
     adaptive |-> d = "AdaptiveSoftMLG",
     normalized |-> d = "NormalizedMinSum",
     offset |-> d = "OffsetMinSum"]

\* the decoders whose constructor takes alpha, and the alphas of the model
UsesAlpha(d) ==
    d \in {"MWBF", "IMWBF", "AdaptiveSoftMLG", "NormalizedMinSum", "OffsetMinSum"}
AlphaVals(d) == IF UsesAlpha(d) THEN {Scale \div 2} ELSE {0}

\* the received samples of the model: -0.5, 0.5, 1.0
InVals == {-(Scale \div 2), Scale \div 2, Scale}

(* ------------------------------- state -------------------------------- *)

VARIABLES
    dec,          \* the decoder class, or "direct" for a bare min_sum_decode call
    call,         \* the function called and its mode flags
    H,            \* the control matrix
    max_iter,     \* the iteration budget
    alpha,        \* the alpha passed to the call
    in,           \* the received samples
    out,          \* the caller's output vector
    s,            \* syndrome
    e,            \* per bit decision metric
    w,            \* weights: per row (WBF, MWBF) or per edge (IMWBF, adaptive MLG)
    r,            \* MLG reliability register
    Q, R,         \* min sum messages
    min1, min2, sgn,
    iter,         \* the loop counter
    is_codeword,  \* the result of the last syndrome check
    pc,           \* where the call stands
    success,      \* the value returned, once pc = "done"
    passes,       \* history: update passes performed
    out_prev      \* history: out before the last update pass

vars ==
    << dec, call, H, max_iter, alpha, in, out, s, e, w, r, Q, R, min1, min2, sgn,
       iter, is_codeword, pc, success, passes, out_prev >>

config == << dec, call, H, max_iter, alpha, in >>

Rows == 0 .. H.k - 1
Cols == 0 .. H.n - 1
Edges == {ij \in Rows \X Cols : \E p \in 1 .. Len(H.K[ij[1]]) : H.K[ij[1]][p] = ij[2]}

\* out[j] = in[j] < 0.0 ? 1 : 0
HardDecision == [j \in Cols |-> IF in[j] < 0 THEN 1 ELSE 0]

\* s = 0; for (int j : row) s ^= o[j]
RECURSIVE SyndromeRow(_, _)
SyndromeRow(row, o) ==
    IF row = << >> THEN 0
    ELSE (SyndromeRow(SubSeq(row, 1, Len(row) - 1), o) + o[row[Len(row)]]) % 2

\* the vector after the bits of the set flip are inverted
Flip(o, flip) == [j \in DOMAIN o |-> IF j \in flip THEN 1 - o[j] ELSE o[j]]

Front(q) == SubSeq(q, 1, Len(q) - 1)
Last(q) == q[Len(q)]

\* return flag
Returned(flag) == pc' = "done" /\ success' = flag

(* ---------------------------- bit flipping ---------------------------- *)

\* std::vector<double> w(w_size, max): one per row, one per cell, or none
BfInitW ==
    IF call.improved THEN [ij \in Rows \X Cols |-> DoubleMax]
    ELSE IF call.weighted THEN [i \in Rows |-> DoubleMax]
    ELSE << >>

\* w0 = std::min(w0, std::abs(in[j])) for the j of row other than skip
RECURSIVE MinAbsIn(_, _, _)
MinAbsIn(w0, row, skip) ==
    IF row = << >> THEN w0
    ELSE LET prev == MinAbsIn(w0, Front(row), skip)
         IN  IF Last(row) = skip THEN prev ELSE FMin(prev, FAbs(in[Last(row)]))

\* the row weights of WBF and MWBF, set during the first syndrome pass
BfRowWeights ==
    IF iter = 0 /\ call.weighted /\ ~call.improved
    THEN [i \in Rows |-> MinAbsIn(w[i], H.K[i], -1)]
    ELSE w

\* the edge weights of IMWBF, set during the first metric pass
BfEdgeWeights ==
    IF iter = 0 /\ call.improved
    THEN [ij \in Rows \X Cols |->
            IF ij \in Edges THEN MinAbsIn(w[ij], H.K[ij[1]], ij[2]) ELSE w[ij]]
    ELSE w

\* the check with row 0 left out
IsCodewordFromRow1(sv) == \A i \in DOMAIN sv \ {0} : sv[i] # 1

\* bool is_codeword: no syndrome bit is 1
IsCodeword(sv) == \A i \in DOMAIN sv : sv[i] # 1

\* the summand of row i in e[j]
BfTerm(i, j, wv) ==
    IF call.improved THEN FSign(2 * s[i] - 1, wv[<< i, j >>])
    ELSE IF call.weighted THEN FSign(2 * s[i] - 1, wv[i])
    ELSE s[i]

RECURSIVE BfSum(_, _, _, _)
BfSum(e0, rows, j, wv) ==
    IF rows = << >> THEN e0
    ELSE FAdd(BfSum(e0, Front(rows), j, wv), BfTerm(Last(rows), j, wv))

\* e[j] of one iteration, from the syndrome s and the weights wv
BfMetric(wv) ==
    [j \in Cols |->
       BfSum(IF call.modified THEN FNeg(FMulAlpha(alpha, Abs(in[j]))) ELSE 0,
             H.N[j], j, wv)]

\* *std::max_element(e.begin(), e.end()): the first of the largest
RECURSIVE MaxElement(_, _)
MaxElement(ev, hi) ==
    IF hi = 0 THEN ev[0]
    ELSE LET best == MaxElement(ev, hi - 1)
         IN  IF FLt(best, ev[hi]) THEN ev[hi] ELSE best

\* std::abs(d) < EPSILON_FLIP
WithinEpsilon(d) == d # NaN /\ Abs(d) * EpsilonFlipDen < Scale

\* only the first column of the largest metric flips
BfToFlipFirst(ev) ==
    LET T_max == MaxElement(ev, H.n - 1)
    IN  {j \in Cols : ev[j] = T_max /\ \A jp \in 0 .. j - 1 : ev[jp] # T_max}

\* std::set<int> to_flip
BfToFlip(ev) ==
    LET T_max == MaxElement(ev, H.n - 1)
    IN  {j \in Cols :
           IF call.weighted THEN WithinEpsilon(FSub(ev[j], T_max))
           ELSE ev[j] = T_max}

BfStart ==
    /\ pc = "start" /\ call.fn = "bf_decode"
    /\ out' = HardDecision
    /\ w' = BfInitW
    /\ s' = [i \in Rows |-> 0]
    /\ e' = [j \in Cols |-> 0]
    /\ iter' = 0
    /\ pc' = "loop"
    /\ UNCHANGED << config, r, Q, R, min1, min2, sgn, is_codeword, success,
                    passes, out_prev >>

\* the first half of an iteration: the syndrome, and the return of true
BfCheck ==
    /\ pc = "loop" /\ call.fn = "bf_decode" /\ iter < max_iter
    /\ s' = [i \in Rows |-> SyndromeRow(H.K[i], out)]
    /\ w' = BfRowWeights
    /\ is_codeword' = IsCodeword(s')
    /\ IF is_codeword' THEN Returned(TRUE) ELSE pc' = "update" /\ UNCHANGED success
    /\ UNCHANGED << config, out, e, r, Q, R, min1, min2, sgn, iter, passes, out_prev >>

\* the second half: the metric, the flip set and the flips
BfUpdate ==
    /\ pc = "update" /\ call.fn = "bf_decode"
    /\ w' = BfEdgeWeights
    /\ e' = BfMetric(w')
    /\ out' = Flip(out, BfToFlip(e'))
    /\ out_prev' = out
    /\ passes' = passes + 1
    /\ iter' = iter + 1
    /\ pc' = "loop"
    /\ UNCHANGED << config, s, r, Q, R, min1, min2, sgn, is_codeword, success >>

\* the loop of an iterative decoder ends: return false
Exhaust ==
    /\ pc = "loop"
    /\ call.fn \in {"bf_decode", "iterative_mlg_decode", "min_sum_decode"}
    /\ ~(iter < max_iter)
    /\ Returned(FALSE)
    /\ UNCHANGED << config, out, s, e, w, r, Q, R, min1, min2, sgn, iter,
                    is_codeword, passes, out_prev >>

(* --------------------------- majority logic --------------------------- *)

\* The MLG functions size s by H.n and loop their syndrome over i < H.n.  With
\* k < n the rows k .. n - 1 are read past the end of H.K: whether such a row
\* yields s[i] == 1 is open.  With k > n the metric reads s[i] for n <= i < k
\* past the end of s: such a cell holds some integer during a pass.
OobInts == {-OobMag, 0, 1, OobMag}
OobRows == {i \in Rows : i >= H.n /\ H.K[i] # << >>}

MlgSyndromes ==
    {sv \in [Cols -> {0, 1}] :
       \A i \in Cols : i < H.k => sv[i] = SyndromeRow(H.K[i], out)}

\* s[i] as the metric loop of column j reads it
SRead(i, j, g) == IF i < H.n THEN s[i] ELSE g[i]

\* g ^ b for a bit b
XorBit(g, b) == IF b = 0 THEN g ELSE IF g % 2 = 0 THEN g + 1 ELSE g - 1

\* the saturation without its upper bound
ClampBelow(x, lo, hi) == FMax(x, lo)

\* std::min(std::max(x, lo), hi)
Clamp(x, lo, hi) == FMin(FMax(x, lo), hi)

RECURSIVE OsSum(_, _, _)
OsSum(rows, j, g) ==
    IF rows = << >> THEN 0
    ELSE OsSum(Front(rows), j, g) + SRead(Last(rows), j, g)

\* int gamma_half = H.N[0].size() / 2
OsGammaHalf == Len(H.N[0]) \div 2

\* a correction pass that reports whether it produced a codeword
OsCorrectedReturnChecked(o) == \A i \in Rows : SyndromeRow(H.K[i], o) # 1

\* the value OneStepMLG returns after its correction pass
OsCorrectedReturn(o) == TRUE

OsStart ==
    /\ pc = "start" /\ call.fn = "OneStepMLG"
    /\ out' = HardDecision
    /\ s' = [i \in Cols |-> 0]
    /\ e' = [j \in Cols |-> 0]
    /\ pc' = "loop"
    /\ UNCHANGED << config, w, r, Q, R, min1, min2, sgn, iter, is_codeword,
                    success, passes, out_prev >>

OsCheck ==
    /\ pc = "loop" /\ call.fn = "OneStepMLG"
    /\ \E sv \in MlgSyndromes :
         /\ s' = sv
         /\ is_codeword' = IsCodeword(sv)
    /\ IF is_codeword' THEN Returned(TRUE) ELSE pc' = "update" /\ UNCHANGED success
    /\ UNCHANGED << config, out, e, w, r, Q, R, min1, min2, sgn, iter, passes,
                    out_prev >>

OsCorrect ==
    /\ pc = "update" /\ call.fn = "OneStepMLG"
    /\ \E g \in [OobRows -> OobInts] :
         e' = [j \in Cols |-> OsSum(H.N[j], j, g)]
    /\ out' = Flip(out, {j \in Cols : e'[j] > OsGammaHalf})
    /\ out_prev' = out
    /\ passes' = passes + 1
    /\ Returned(OsCorrectedReturn(out'))
    /\ UNCHANGED << config, s, w, r, Q, R, min1, min2, sgn, iter, is_codeword >>

\* int gamma = H.N[0].size()
MlgGamma == Len(H.N[0])
\* R max = soft ? (1 << (x - 1)) - 1 : gamma, and R min = -max
MlgMaxInt == IF call.soft THEN 2 ^ (RegBits - 1) - 1 ELSE MlgGamma
MlgMax == MlgMaxInt * Scale
MlgMin == -MlgMax

\* the register after initialization, in units
MlgInitR(o) ==
    [j \in Cols |->
       IF call.soft
       THEN Clamp(Round(in[j] * MlgMaxInt, Scale) * Scale, MlgMin, MlgMax)
       ELSE IF o[j] = 1 THEN MlgMin ELSE MlgMax]

\* std::vector<int> w(k * n, max), overwritten with min by the adaptive variant
MlgInitW ==
    [ij \in Rows \X Cols |-> IF call.adaptive THEN -MlgMaxInt ELSE IntMax]

RECURSIVE MlgSum(_, _, _)
MlgSum(rows, j, g) ==
    IF rows = << >> THEN 0
    ELSE LET i == Last(rows)
             sign == 2 * XorBit(SRead(i, j, g), out[j]) - 1
         IN  MlgSum(Front(rows), j, g)
               + (IF call.adaptive THEN sign * w[<< i, j >>] ELSE sign)

\* r[j] after one update, saturated
MlgNewR(j, ev) ==
    IF call.adaptive THEN Clamp(r[j] - alpha * ev[j], MlgMin, MlgMax)
    ELSE Clamp(r[j] - ev[j] * Scale, MlgMin, MlgMax)

MlgStart ==
    /\ pc = "start" /\ call.fn = "iterative_mlg_decode"
    /\ out' = HardDecision
    /\ r' = MlgInitR(out')
    /\ w' = MlgInitW
    /\ s' = [i \in Cols |-> 0]
    /\ e' = [j \in Cols |-> 0]
    /\ iter' = 0
    /\ pc' = "loop"
    /\ UNCHANGED << config, Q, R, min1, min2, sgn, is_codeword, success, passes,
                    out_prev >>

MlgCheck ==
    /\ pc = "loop" /\ call.fn = "iterative_mlg_decode" /\ iter < max_iter
    /\ \E sv \in MlgSyndromes :
         /\ s' = sv
         /\ is_codeword' = IsCodeword(sv)
    /\ IF is_codeword' THEN Returned(TRUE) ELSE pc' = "update" /\ UNCHANGED success
    /\ UNCHANGED << config, out, e, w, r, Q, R, min1, min2, sgn, iter, passes,
                    out_prev >>

MlgUpdate ==
    /\ pc = "update" /\ call.fn = "iterative_mlg_decode"
    /\ \E g \in [OobRows -> OobInts] :
         e' = [j \in Cols |-> MlgSum(H.N[j], j, g)]
    /\ r' = [j \in Cols |-> MlgNewR(j, e')]
    /\ out' = [j \in Cols |-> IF r'[j] < 0 THEN 1 ELSE 0]
    /\ out_prev' = out
    /\ passes' = passes + 1
    /\ iter' = iter + 1
    /\ pc' = "loop"
    /\ UNCHANGED << config, s, w, Q, R, min1, min2, sgn, is_codeword, success >>

\* an out-of-range read of H.K or of s ends the process instead
OobCrash ==
    /\ call.fn \in {"OneStepMLG", "iterative_mlg_decode"}
    /\ \/ pc = "loop" /\ H.k < H.n
          /\ (call.fn = "iterative_mlg_decode" => iter < max_iter)
       \/ pc = "update" /\ OobRows # {}
    /\ pc' = "crashed"
    /\ UNCHANGED << config, out, s, e, w, r, Q, R, min1, min2, sgn, iter,
                    is_codeword, success, passes, out_prev >>

(* ------------------------------ min sum ------------------------------- *)

\* a min_sum_decode without the check of its flags
MsRejectedNever(c) == FALSE

\* if (normalized && offset) throw std::invalid_argument
MsRejected(c) == c.normalized /\ c.offset

\* static bool hard_decide(out, H)
hard_decide(o) == \A i \in Rows : SyndromeRow(H.K[i], o) # 1

\* Q[i * n + j] = in[j] on the edges, during the first iteration
MsLoadQ ==
    IF iter = 0
    THEN [ij \in Rows \X Cols |-> IF ij \in Edges THEN in[ij[2]] ELSE Q[ij]]
    ELSE Q

\* the summary that moves min2 only when min1 moves
MsTrackFirstOnly(acc, q) ==
    LET q_abs == FAbs(q)
        sg == IF FLt(q, 0) THEN 1 - acc.sgn ELSE acc.sgn
    IN  IF FLt(q_abs, acc.min1)
        THEN [min1 |-> q_abs, min2 |-> acc.min1, sgn |-> sg]
        ELSE [min1 |-> acc.min1, min2 |-> acc.min2, sgn |-> sg]

\* one entry q of a row enters the row's summary acc = [min1, min2, sgn]
MsTrack(acc, q) ==
    LET q_abs == FAbs(q)
        sg == IF FLt(q, 0) THEN 1 - acc.sgn ELSE acc.sgn
    IN  IF FLt(q_abs, acc.min1)
        THEN [min1 |-> q_abs, min2 |-> acc.min1, sgn |-> sg]
        ELSE IF FLt(q_abs, acc.min2)
             THEN [min1 |-> acc.min1, min2 |-> q_abs, sgn |-> sg]
             ELSE [min1 |-> acc.min1, min2 |-> acc.min2, sgn |-> sg]

RECURSIVE MsRow(_, _, _)
MsRow(i, row, Qv) ==
    IF row = << >> THEN [min1 |-> DoubleMax, min2 |-> DoubleMax, sgn |-> 0]
    ELSE MsTrack(MsRow(i, Front(row), Qv), Qv[<< i, Last(row) >>])

\* double r = q_abs == min1[i] ? min2[i] : min1[i]
MsMagnitude(i, j) ==
    IF FEq(FAbs(Q[<< i, j >>]), min1[i]) THEN min2[i] ELSE min1[i]

\* R[i * n + j] of an edge
MsMessage(i, j) ==
    LET mag == MsMagnitude(i, j)
        neg == sgn[i] # (IF FLt(Q[<< i, j >>], 0) THEN 1 ELSE 0)
    IN  IF call.normalized
        THEN FDivAlpha(alpha, IF neg THEN FNeg(mag) ELSE mag)
        ELSE IF call.offset
             THEN LET tmp == FMax(FSub(mag, alpha), 0)
                  IN  IF neg THEN FNeg(tmp) ELSE tmp
             ELSE IF neg THEN FNeg(mag) ELSE mag

RECURSIVE MsLe(_, _)
MsLe(rows, j) ==
    IF rows = << >> THEN 0
    ELSE FAdd(MsLe(Front(rows), j), R[<< Last(rows), j >>])

\* in[j] + Le
MsTotal(j) == FAdd(in[j], MsLe(H.N[j], j))

MsStart ==
    /\ pc = "start" /\ call.fn = "min_sum_decode"
    /\ IF MsRejected(call)
       THEN /\ pc' = "rejected"
            /\ UNCHANGED << out, Q, R, min1, min2, sgn, iter, is_codeword, success >>
       ELSE /\ out' = HardDecision
            /\ Q' = [ij \in Rows \X Cols |-> NaN]
            /\ R' = [ij \in Rows \X Cols |-> NaN]
            /\ min1' = [i \in Rows |-> DoubleMax]
            /\ min2' = [i \in Rows |-> DoubleMax]
            /\ sgn' = [i \in Rows |-> 0]
            /\ is_codeword' = hard_decide(out')
            /\ IF is_codeword'
               THEN Returned(TRUE) /\ UNCHANGED iter
               ELSE pc' = "loop" /\ iter' = 0 /\ UNCHANGED success
    /\ UNCHANGED << config, s, e, w, r, passes, out_prev >>

\* each row's two smallest magnitudes and its sign
MsSummary ==
    /\ pc = "loop" /\ call.fn = "min_sum_decode" /\ iter < max_iter
    /\ Q' = MsLoadQ
    /\ LET row == [i \in Rows |-> MsRow(i, H.K[i], Q')]
       IN  /\ min1' = [i \in Rows |-> row[i].min1]
           /\ min2' = [i \in Rows |-> row[i].min2]
           /\ sgn' = [i \in Rows |-> row[i].sgn]
    /\ pc' = "check_to_var"
    /\ UNCHANGED << config, out, s, e, w, r, R, iter, is_codeword, success,
                    passes, out_prev >>

\* R from the minima and signs
MsCheckToVar ==
    /\ pc = "check_to_var"
    /\ R' = [ij \in Rows \X Cols |->
               IF ij \in Edges THEN MsMessage(ij[1], ij[2]) ELSE R[ij]]
    /\ pc' = "posterior"
    /\ UNCHANGED << config, out, s, e, w, r, Q, min1, min2, sgn, iter,
                    is_codeword, success, passes, out_prev >>

\* the new out and Q, and the check of the new out
MsPosterior ==
    /\ pc = "posterior"
    /\ out' = [j \in Cols |-> IF FLt(MsTotal(j), 0) THEN 1 ELSE 0]
    /\ Q' = [ij \in Rows \X Cols |->
               IF ij \in Edges THEN FSub(MsTotal(ij[2]), R[ij]) ELSE Q[ij]]
    /\ out_prev' = out
    /\ passes' = passes + 1
    /\ is_codeword' = hard_decide(out')
    /\ IF is_codeword'
       THEN Returned(TRUE) /\ UNCHANGED iter
       ELSE pc' = "loop" /\ iter' = iter + 1 /\ UNCHANGED success
    /\ UNCHANGED << config, s, e, w, r, R, min1, min2, sgn >>

(* --------------------------- specifications --------------------------- *)

Fresh ==
    /\ out = [j \in Cols |-> 0]
    /\ out_prev = out
    /\ s = << >> /\ e = << >> /\ w = << >> /\ r = << >>
    /\ Q = << >> /\ R = << >>
    /\ min1 = << >> /\ min2 = << >> /\ sgn = << >>
    /\ iter = 0
    /\ is_codeword = FALSE
    /\ pc = "start"
    /\ success = FALSE
    /\ passes = 0

\* a decoder of one of the eleven classes, about to decode
Init ==
    /\ dec \in Decoders
    /\ call = Wrapper(dec)
    /\ H \in CtrlMats
    /\ max_iter \in 0 .. MaxIter
    /\ alpha \in AlphaVals(dec)
    /\ in \in [Cols -> InVals]
    /\ Fresh

Next ==
    \/ BfStart \/ BfCheck \/ BfUpdate
    \/ OsStart \/ OsCheck \/ OsCorrect
    \/ MlgStart \/ MlgCheck \/ MlgUpdate \/ OobCrash
    \/ MsStart \/ MsSummary \/ MsCheckToVar \/ MsPosterior
    \/ Exhaust

Spec == Init /\ [][Next]_vars

\* min_sum_decode called with any pair of flags
InitMinSum ==
    /\ dec = "direct"
    /\ call \in {[Wrapper("MinSum") EXCEPT !.normalized = a, !.offset = b] :
                   a \in BOOLEAN, b \in BOOLEAN}
    /\ H \in CtrlMats
    /\ max_iter \in 0 .. MaxIter
    /\ alpha \in AlphaVals("NormalizedMinSum")
    /\ in \in [Cols -> InVals]
    /\ Fresh

NextMinSum == MsStart \/ MsSummary \/ MsCheckToVar \/ MsPosterior \/ Exhaust

SpecMinSum == InitMinSum /\ [][NextMinSum]_vars

(* --------------------- the code's terms, set-wise --------------------- *)

\* the columns of row i and the rows of column j, as sets
RowCols(i) == {H.K[i][p] : p \in 1 .. Len(H.K[i])}
ColRows(j) == {H.N[j][p] : p \in 1 .. Len(H.N[j])}

\* the parity of row i on the word o, and the words of zero syndrome
Parity(i, o) == Cardinality({j \in RowCols(i) : o[j] = 1}) % 2
ParityOk(o) == \A i \in Rows : Parity(i, o) = 0

Returns == pc = "done"
Zeros == [j \in Cols |-> 0]
AllPositive == \A j \in Cols : in[j] > 0

(* ------------------------------- C1 ----------------------------------- *)

C2_FailureMeansNonZeroSyndrome ==
    (Returns /\ ~success /\ dec \in IterativeDecoders) => ~ParityOk(out)

(* ------------------------------- C3 ----------------------------------- *)

\* C3: with max_iter = 0 an iterative decoder returns the hard decision of in,
\* and returns true exactly if that hard decision has zero syndrome.
C3_ZeroBudget ==
    (Returns /\ max_iter = 0 /\ dec \in IterativeDecoders) =>
        /\ out = HardDecision
        /\ success <=> ParityOk(HardDecision)

(* ------------------------------- C4 ----------------------------------- *)

\* C4: on an all positive input every decoder with max_iter >= 1 returns
\* (true, all zero), and returns it before any update pass.
C4_AllPositiveConverges ==
    (Returns /\ AllPositive /\ max_iter >= 1 /\ dec \in Decoders) =>
        /\ success
        /\ out = Zeros
        /\ dec \in IterativeDecoders => passes = 0

(* ------------------------------- C5 ----------------------------------- *)

\* C5: whatever the input, a return of OneStepMLG is a return of true, after
\* at most one correction pass.
C5_OneStepAlwaysTrue ==
    (Returns /\ dec = "OneStepMLG") => (success /\ passes <= 1)

\* OneStepMLG returned after a correction pass that flipped a bit and left a
\* parity check violated
C5_Witness ==
    /\ Returns /\ dec = "OneStepMLG" /\ passes = 1
    /\ out # out_prev /\ ~ParityOk(out)

(* ------------------------------- C6 ----------------------------------- *)

C8_StateMachine ==
    dec \in IterativeDecoders =>
        /\ passes <= max_iter
        /\ Returns => (success <=> ParityOk(out))
        /\ (Returns /\ ~success) => passes = max_iter
        /\ passes >= 1 => ~ParityOk(out_prev)

\* what the loops do keep: at most max_iter passes, false only after max_iter
\* passes, true only after a check that found no syndrome bit set
BudgetRespected ==
    dec \in IterativeDecoders =>
        /\ passes <= max_iter
        /\ (Returns /\ ~success) => (passes = max_iter /\ iter = max_iter)
        /\ (Returns /\ success) => is_codeword

(* ------------------------------- C9 ----------------------------------- *)

\* e[j] of plain BF on the word o: the number of violated rows of column j
Violated(j, o) == Cardinality({i \in ColRows(j) : Parity(i, o) = 1})
MostViolated(o) ==
    {j \in Cols : \A jp \in Cols : Violated(jp, o) <= Violated(j, o)}

AfterUpdate == passes >= 1 /\ (pc = "loop" \/ (Returns /\ ~success))

\* C9: after an iteration of plain BF, out is the word before it with exactly
\* the columns of the largest e[j] inverted, e[j] being the number of violated
\* rows of column j; that set is not empty, so out changed.
C9_FlipsAllMaxima ==
    (dec = "BF" /\ AfterUpdate) =>
        /\ MostViolated(out_prev) # {}
        /\ \A j \in Cols :
              out[j] = IF j \in MostViolated(out_prev)
                       THEN 1 - out_prev[j] ELSE out_prev[j]
        /\ out # out_prev

\* an iteration of BF inverted two or more columns at once and left one alone
C9_Witness ==
    /\ dec = "BF" /\ AfterUpdate
    /\ Cardinality(MostViolated(out_prev)) >= 2
    /\ MostViolated(out_prev) # Cols

(* ------------------------------- C10 ---------------------------------- *)

\* |Q[i, .]| at the positions of row i
Mags(i) == [p \in 1 .. Len(H.K[i]) |-> Abs(Q[<< i, H.K[i][p] >>])]
\* the smallest magnitude of row i at the positions other than those of skip
Least(i, skip) ==
    CHOOSE m \in {Mags(i)[p] : p \in DOMAIN Mags(i) \ skip} :
        \A p \in DOMAIN Mags(i) \ skip : m <= Mags(i)[p]
\* a position of the smallest magnitude of row i
ArgLeast(i) == CHOOSE p \in DOMAIN Mags(i) : Mags(i)[p] = Least(i, {})

\* C10: after the row summary, in every row of two or more entries min1 and
\* min2 are the smallest and the second smallest of the magnitudes |Q[i, j]|
\* (equal if the smallest occurs twice), and the magnitude chosen for an edge
\* (i, j) is the smallest of the other entries of the row; plain MinSum stores
\* that magnitude in R.
C10_TwoMinima ==
    (pc \in {"check_to_var", "posterior"}) =>
        \A i \in Rows : Len(H.K[i]) >= 2 =>
            /\ min1[i] = Least(i, {})
            /\ min2[i] = Least(i, {ArgLeast(i)})
            /\ \A p \in DOMAIN Mags(i) :
                  /\ MsMagnitude(i, H.K[i][p]) = Least(i, {p})
                  /\ (pc = "posterior" /\ dec = "MinSum") =>
                         Abs(R[<< i, H.K[i][p] >>]) = Least(i, {p})

\* what the summary does keep: the same statement for the rows whose
\* magnitudes are all below DoubleMax, the value min1 and min2 start from;
\* a magnitude of Inf or NaN in a row is compared with DoubleMax and lost
FiniteRow(i) == \A p \in DOMAIN Mags(i) : Mags(i)[p] < DoubleMax
TwoMinimaOfFiniteRows ==
    (pc \in {"check_to_var", "posterior"}) =>
        \A i \in Rows : (Len(H.K[i]) >= 2 /\ FiniteRow(i)) =>
            /\ min1[i] = Least(i, {})
            /\ min2[i] = Least(i, {ArgLeast(i)})
            /\ \A p \in DOMAIN Mags(i) :
                  MsMagnitude(i, H.K[i][p]) = Least(i, {p})

\* a row of three entries in a later iteration whose smallest magnitude occurs
\* twice and whose third entry is larger
C10_Witness ==
    /\ pc = "check_to_var" /\ iter >= 1
    /\ \E i \in Rows :
         /\ Len(H.K[i]) >= 3
         /\ min1[i] = min2[i]
         /\ \E p \in DOMAIN Mags(i) : Mags(i)[p] > min1[i]

(* ------------------------------- C11 ---------------------------------- *)

\* the syndrome of the hard decision over the k rows of H
HardSyndrome == [i \in Rows |-> Parity(i, HardDecision)]
OneStepCorrected ==
    Returns /\ dec = "OneStepMLG" /\ ~ParityOk(HardDecision)

\* C11: when the hard decision is not a codeword, OneStepMLG has computed s
\* over exactly the k rows of H, e[j] as the sum of s[i] over N[j], and has
\* inverted out[j] exactly if e[j] > floor(gamma / 2) with gamma the row
\* weight |K[0]|, on every H.
C11_OneStepRule ==
    OneStepCorrected =>
        /\ s = HardSyndrome
        /\ \A j \in Cols :
              /\ e[j] = Violated(j, HardDecision)
              /\ out[j] = IF e[j] > Len(H.K[0]) \div 2
                          THEN 1 - HardDecision[j] ELSE HardDecision[j]

\* what the pass does keep on a matrix of k = n rows: the syndrome and e as
\* stated, and the threshold floor(|N[0]| / 2), half the weight of column 0
OneStepRuleOnSquare ==
    (OneStepCorrected /\ H.k = H.n) =>
        /\ s = HardSyndrome
        /\ \A j \in Cols :
              /\ e[j] = Violated(j, HardDecision)
              /\ out[j] = IF e[j] > Len(H.N[0]) \div 2
                          THEN 1 - HardDecision[j] ELSE HardDecision[j]

\* a square matrix on which the two thresholds differ and a column lies
\* between them
C11_Witness ==
    /\ OneStepCorrected /\ H.k = H.n
    /\ Len(H.N[0]) \div 2 < Len(H.K[0]) \div 2
    /\ \E j \in Cols : e[j] > Len(H.N[0]) \div 2 /\ e[j] <= Len(H.K[0]) \div 2

====
